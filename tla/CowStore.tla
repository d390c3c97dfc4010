------------------------------ MODULE CowStore ------------------------------
(***************************************************************************)
(* The copy-on-write store of the dnbd3 FUSE client (src/fuse/cowfile.c):   *)
(* the L1/L2 index of metadata blocks, each with a data-file offset and a   *)
(* bitfield of the BLOCK-sized frames held locally, the data file, and the  *)
(* handlers cowfile_write, cowfile_read and cowfile_setSize.                *)
(*                                                                         *)
(* Sizes are scaled down: BLOCK stands for DNBD3_BLOCK_SIZE (4096), FRAMES *)
(* for COW_BITFIELD_SIZE * 8, L2SIZE for COW_L2_SIZE.  Bytes are values:   *)
(* Orig(p) is byte p of the image on the server, Data(k, j) is byte j of   *)
(* the buffer of the k-th client write, Zero a zero byte and Junk the      *)
(* content of memory nobody initialised.                                   *)
(*                                                                         *)
(* A write runs on a FUSE dispatcher thread, one loop iteration per step;  *)
(* its padding reads are sub-requests completed later by the connection's  *)
(* receive thread (writePaddedBlock).  A read's loop is one step and its *)
(* final fetch_sub another; setSize is atomic.                           *)
(* content/contentSize is the file a POSIX client expects to see.          *)
(***************************************************************************)
EXTENDS Integers, FiniteSets, FiniteSetsExt, TLC

CONSTANTS
    BLOCK,        \* DNBD3_BLOCK_SIZE
    FRAMES,       \* frames per metadata block, COW_BITFIELD_SIZE * 8
    L2SIZE,       \* metadata blocks per L2 block, COW_L2_SIZE
    L1SIZE,       \* entries of the L1 array
    ORIGIN_SIZE,  \* size of the image on the server
    Threads,      \* FUSE dispatcher threads
    WriteOps,     \* the <<offset, size>> of writes a client may issue
    SizeOps,      \* the sizes a client may truncate or extend the file to
    ReadOps,      \* the <<offset, size>> of reads a client may issue
    InFlight,     \* writes the kernel may have outstanding at once
    MaxOps,       \* bound on client writes and setSize calls
    MaxReads      \* bound on client reads

CAP == BLOCK * FRAMES          \* COW_METADATA_STORAGE_CAPACITY
L2CAP == CAP * L2SIZE          \* COW_L2_STORAGE_CAPACITY
MaxImage == L1SIZE * L2CAP     \* COW_MAX_IMAGE_SIZE
MaxFile == MaxImage - CAP      \* no file reaches the last metadata block
DataMax == (1 + L1SIZE * L2SIZE + MaxOps) * CAP + BLOCK

ASSUME
    /\ \A x \in {BLOCK, FRAMES, L2SIZE, L1SIZE, MaxOps, InFlight} : x \in Nat \ {0}
    /\ ORIGIN_SIZE \in 0..MaxFile /\ ORIGIN_SIZE % BLOCK = 0
    /\ \A w \in WriteOps : w[1] \in Nat /\ w[2] \in Nat \ {0} /\ w[1] + w[2] <= MaxFile
    /\ SizeOps \subseteq 0..MaxFile
    /\ \A w \in ReadOps : w[1] \in Nat /\ w[2] \in Nat \ {0}

Zero == <<"zero">>
Junk == <<"junk">>
Orig(p) == <<"orig", p>>
Data(k, j) == <<"data", k, j>>
\* an uninitialised byte of malloc'ed memory may hold anything
UninitValues == {Zero, Junk}

Frames == 0..FRAMES-1
Positions == 0..MaxImage-1
NoBlock == <<-1, -1>>
NoCall == [off |-> -1, size |-> 0]
Ops == 1..MaxOps
Reads == 1..MaxReads

VARIABLES
    l1,                 \* cow.l1: L1 index -> L2 arena index or -1
    nextL2,             \* metadata->nextL2
    meta,               \* the L2 arena: [arena][l2] -> [offset, bits]
    dataFileSize,       \* metadata->dataFileSize (allocated data bytes)
    dataFile,           \* the data file, byte position -> value
    imageSize,          \* metadata->imageSize
    originalImageSize,  \* metadata->originalImageSize
    req,                \* the cow_request_t of every client write
    th,                 \* the dispatcher threads and their loop variables
    pending,            \* padding sub-requests sent to the server
    ops,                \* client writes and setSize calls issued
    content,            \* the file as a POSIX client expects it
    contentSize,        \* its size
    rd,                 \* the cow_request_t of every client read
    rpending            \* remote reads (readRemote) sent to the server

store == <<l1, nextL2, meta, dataFileSize, dataFile, imageSize, originalImageSize>>
reads == <<rd, rpending>>
vars == <<store, req, th, pending, ops, content, contentSize, reads>>

-----------------------------------------------------------------------------
(* Address arithmetic and bitfields.                                       *)

Minimum(a, b) == IF a < b THEN a ELSE b
Maximum(a, b) == IF a > b THEN a ELSE b
\* C integer division truncates towards zero
CDiv(a, b) == IF a < 0 THEN -((-a) \div b) ELSE a \div b

getL1Offset(o) == o \div L2CAP
getL2Offset(o) == (o % L2CAP) \div CAP
getBitfieldOffset(o) == (o \div BLOCK) % FRAMES

\* setBitsInBitfield(from, to, 1); a bit past the bitfield (to = FRAMES)
\* lands in the memory after it, not in the bitfield
setBitsInBitfield(bits, from, to) == bits \cup {i \in Frames : from <= i /\ i <= to}

-----------------------------------------------------------------------------
(* Store operations on a record S = [df, meta, dfs, worked, counter,       *)
(* pending]: the data file, the L2 arena, dataFileSize, bytesWorkedOn and   *)
(* workCounter of the request being served, and the padding sub-requests   *)
(* in flight.                                                              *)

Snapshot(k) ==
    [df |-> dataFile, meta |-> meta, dfs |-> dataFileSize,
     worked |-> IF k \in Ops THEN req[k].worked ELSE 0,
     counter |-> IF k \in Ops THEN req[k].counter ELSE 0, pending |-> pending]

\* allocateMetaBlockData: block->offset = fetch_add(&dataFileSize, CAP)
allocateMetaBlockData(S, a, j) ==
    [S EXCEPT !.meta[a][j].offset = S.dfs, !.dfs = @ + CAP]

\* mutant: the test of block->offset dropped
getBlockAlwaysAllocates(S, a, j) == allocateMetaBlockData(S, a, j)

\* getBlock: the test of offset and the allocation, in one step
getBlock(S, a, j) ==
    IF S.meta[a][j].offset = -1 THEN allocateMetaBlockData(S, a, j) ELSE S

\* mutant: the last frame counted from inB + size, not inB + size - 1
writeDataEndPastFrame(S, a, j, buf, size, netSize, inB) ==
    LET base == S.meta[a][j].offset + inB
    IN [S EXCEPT
          !.df = [x \in DOMAIN @ |-> IF base <= x /\ x < base + size
                                     THEN buf[x - base] ELSE @[x]],
          !.worked = @ + netSize,
          !.meta[a][j].bits =
              setBitsInBitfield(@, CDiv(inB, BLOCK), CDiv(inB + size, BLOCK))]

\* writeData: pwrite size bytes of buf at the block's offset + inB, count
\* netSize bytes as worked on and mark the frames written
writeData(S, a, j, buf, size, netSize, inB) ==
    LET base == S.meta[a][j].offset + inB
    IN [S EXCEPT
          !.df = [x \in DOMAIN @ |-> IF base <= x /\ x < base + size
                                     THEN buf[x - base] ELSE @[x]],
          !.worked = @ + netSize,
          !.meta[a][j].bits =
              setBitsInBitfield(@, CDiv(inB, BLOCK), CDiv(inB + size - 1, BLOCK))]

\* mutant: the sub-request sent without atomic_fetch_add(&workCounter, 1)
padBlockFromRemoteUncounted(S, k, offset, bi, size, a, j, inB, u) ==
    IF offset > originalImageSize
    THEN writeData(S, a, j, [i \in 0..BLOCK-1 |-> IF i < size THEN Data(k, bi + i) ELSE Zero],
                   BLOCK, size, inB)
    ELSE LET start == offset - (offset % BLOCK)
             length == IF offset + BLOCK > originalImageSize
                       THEN Minimum(BLOCK, offset + BLOCK - originalImageSize)
                       ELSE BLOCK
             lo == inB % BLOCK
             frame == [i \in 0..BLOCK-1 |->
                         IF lo <= i /\ i < lo + size THEN Data(k, bi + i - lo)
                         ELSE IF i < length /\ start + i < ORIGIN_SIZE THEN Orig(start + i)
                         ELSE u]
         IN [S EXCEPT !.pending = @ \cup {[k |-> k, a |-> a, j |-> j, at |-> inB - lo,
                                           size |-> size, frame |-> frame]}]

\* padBlockFromRemote: pad a partial frame with zeros beyond the original
\* image, otherwise send a read of the frame to the server; u is what the
\* sub-request's buffer holds where the server sent nothing
padBlockFromRemote(S, k, offset, bi, size, a, j, inB, u) ==
    IF offset > originalImageSize
    THEN writeData(S, a, j, [i \in 0..BLOCK-1 |-> IF i < size THEN Data(k, bi + i) ELSE Zero],
                   BLOCK, size, inB)
    ELSE LET start == offset - (offset % BLOCK)
             length == IF offset + BLOCK > originalImageSize
                       THEN Minimum(BLOCK, offset + BLOCK - originalImageSize)
                       ELSE BLOCK
             lo == inB % BLOCK
             frame == [i \in 0..BLOCK-1 |->
                         IF lo <= i /\ i < lo + size THEN Data(k, bi + i - lo)
                         ELSE IF i < length /\ start + i < ORIGIN_SIZE THEN Orig(start + i)
                         ELSE u]
         IN [S EXCEPT !.counter = @ + 1,
                      !.pending = @ \cup {[k |-> k, a |-> a, j |-> j, at |-> inB - lo,
                                           size |-> size, frame |-> frame]}]


-----------------------------------------------------------------------------
(* One iteration of the inner loop of cowfile_write over metadata block    *)
(* (l1o, l2o): a partial head frame not held locally is padded and the    *)
(* iteration ends; otherwise a partial tail frame not held locally is      *)
(* padded and the rest is written with writeData.  bi is the index into    *)
(* the request's write buffer, counted from the offset of this call.       *)

Chunk(S, k, off, cur, end, l1o, l2o, u) ==
    LET a == l1[l1o]
        mbStart == l1o * L2CAP + l2o * CAP
        inB == cur - mbStart
        toWrite == Minimum(end - cur, CAP - inB)
        bits == S.meta[a][l2o].bits
        cEnd == cur + toWrite
        padStart == cEnd - (cEnd % BLOCK)
        inPad == padStart - mbStart
        tail == cEnd % BLOCK # 0 /\ (inPad \div BLOCK) \notin bits
        S1 == IF tail
              THEN padBlockFromRemote(S, k, padStart, padStart - off, cEnd - padStart,
                                      a, l2o, inPad, u)
              ELSE S
        main == IF tail THEN toWrite - (cEnd - padStart) ELSE toWrite
    IN IF cur % BLOCK # 0 /\ (inB \div BLOCK) \notin bits
       THEN LET pad == Minimum(toWrite, BLOCK - (cur % BLOCK))
            IN [st |-> padBlockFromRemote(S, k, off, cur - off, pad, a, l2o, inB, u),
                cur |-> cur + pad, l2o |-> l2o]
       ELSE [st |-> writeData(S1, a, l2o, [i \in 0..main-1 |-> Data(k, cur - off + i)],
                              main, main, inB),
             cur |-> cEnd, l2o |-> l2o + 1]

Commit(S) ==
    /\ dataFile' = S.df
    /\ meta' = S.meta
    /\ dataFileSize' = S.dfs
    /\ pending' = S.pending

\* finishWriteRequest: grow imageSize and reply bytesWorkedOn to FUSE; the
\* client's file changes when the reply arrives
finishWriteRequest(k, r) ==
    /\ imageSize' = Maximum(imageSize, r.worked + r.off)
    /\ req' = [req EXCEPT ![k] = [r EXCEPT !.state = "replied", !.reply = r.worked]]
    /\ content' = [p \in Positions |-> IF r.off <= p /\ p < r.off + r.size
                                        THEN Data(k, p - r.off) ELSE content[p]]
    /\ contentSize' = Maximum(contentSize, r.off + r.size)

\* mutant: the request finished when the counter reaches 0, not 1
ReleaseAtZero(k, S) ==
    LET r == [req[k] EXCEPT !.worked = S.worked, !.counter = S.counter - 1]
    IN IF S.counter = 0
       THEN finishWriteRequest(k, r)
       ELSE /\ req' = [req EXCEPT ![k] = r]
            /\ UNCHANGED <<imageSize, content, contentSize>>

\* atomic_fetch_sub(&workCounter, 1) == 1 finishes the request
Release(k, S) ==
    LET r == [req[k] EXCEPT !.worked = S.worked, !.counter = S.counter - 1]
    IN IF S.counter = 1
       THEN finishWriteRequest(k, r)
       ELSE /\ req' = [req EXCEPT ![k] = r]
            /\ UNCHANGED <<imageSize, content, contentSize>>

Idle == [pc |-> "idle", k |-> 0, off |-> 0, size |-> 0, cur |-> 0, end |-> 0,
         l1o |-> 0, l2o |-> 0, outer |-> NoCall]

\* a call cowfile_write(offset, size) about to enter its outer loop
CallFrame(k, off, size, outer) ==
    [pc |-> "outer", k |-> k, off |-> off, size |-> size, cur |-> off,
     end |-> off + size, l1o |-> getL1Offset(off), l2o |-> getL2Offset(off),
     outer |-> outer]

\* createL2Block under l2CreateLock: initialise the next L2 block, then
\* publish it in the L1 array
createL2Block(i) ==
    /\ l1' = [l1 EXCEPT ![i] = nextL2]
    /\ nextL2' = nextL2 + 1
    /\ meta' = [meta EXCEPT ![nextL2] = [j \in 0..L2SIZE-1 |-> [offset |-> -1, bits |-> {}]]]

-----------------------------------------------------------------------------
(* Actions of the write path.                                              *)

\* FUSE hands a write to cowfile_write with a fresh cow_request_t
\* (workCounter 1).  Beyond the end of the file the call first pads from
\* imageSize with a recursive call of pSize bytes taken from the same
\* buffer.  pSize is a size_t: when the subtraction underflows, the end of
\* the recursive call wraps below its start and its loop does not run,
\* which is what the negative pSize below gives.  The client never issues
\* two writes whose ranges, a write beyond the end counted from imageSize,
\* overlap, and has at most InFlight writes unanswered.
WriteBegin(t, o, s) ==
    LET k == ops + 1
        gap == o > imageSize
        pSize0 == o - imageSize
        pSize == pSize0 - ((pSize0 + o) % BLOCK)
        lo == Minimum(o, imageSize)
    IN /\ th[t].pc = "idle"
       /\ ops < MaxOps
       /\ Cardinality({k2 \in Ops : req[k2].state = "active"}) < InFlight
       /\ \A k2 \in Ops : req[k2].state = "active" => (o + s <= req[k2].lo \/ req[k2].hi <= lo)
       /\ ops' = k
       /\ req' = [req EXCEPT ![k] = [off |-> o, size |-> s, counter |-> IF gap THEN 2 ELSE 1,
                                     worked |-> 0, state |-> "active", reply |-> 0,
                                     lo |-> lo, hi |-> o + s]]
       /\ th' = [th EXCEPT ![t] = IF gap
                                  THEN CallFrame(k, imageSize, pSize, [off |-> o, size |-> s])
                                  ELSE CallFrame(k, o, s, NoCall)]
       /\ UNCHANGED <<store, pending, content, contentSize, reads>>

\* top of the outer loop: create the L2 block if missing; or, when the
\* range is done, return from the call (the padding call returns to the
\* write it was made for)
WriteOuter(t) ==
    LET w == th[t]
    IN /\ w.pc = "outer"
       /\ IF w.cur < w.end
          THEN /\ IF l1[w.l1o] = -1 THEN createL2Block(w.l1o) ELSE UNCHANGED <<l1, nextL2, meta>>
               /\ th' = [th EXCEPT ![t].pc = "inner"]
               /\ UNCHANGED <<dataFileSize, dataFile, imageSize, originalImageSize, req,
                              pending, ops, content, contentSize, reads>>
          ELSE /\ Release(w.k, Snapshot(w.k))
               /\ th' = [th EXCEPT ![t] = IF w.outer # NoCall
                                          THEN CallFrame(w.k, w.outer.off, w.outer.size, NoCall)
                                          ELSE Idle]
               /\ UNCHANGED <<l1, nextL2, meta, dataFileSize, dataFile, originalImageSize,
                              pending, ops, reads>>

DoChunk(t, S, u) ==
    LET w == th[t]
        c == Chunk(S, w.k, w.off, w.cur, w.end, w.l1o, w.l2o, u)
    IN /\ Commit(c.st)
       /\ req' = [req EXCEPT ![w.k].worked = c.st.worked, ![w.k].counter = c.st.counter]
       /\ th' = [th EXCEPT ![t].pc = "inner", ![t].cur = c.cur, ![t].l2o = c.l2o]
       /\ UNCHANGED <<l1, nextL2, imageSize, originalImageSize, ops, content, contentSize,
                      reads>>

\* top of the inner loop: getBlock tests the block's offset; an allocated
\* block is written at once, an unallocated one is allocated in a later
\* step; past the L2 block or the range, go on with the next L1 entry
WriteInner(t) ==
    LET w == th[t]
    IN /\ w.pc = "inner"
       /\ IF w.cur < w.end /\ w.l2o < L2SIZE
          THEN IF meta[l1[w.l1o]][w.l2o].offset = -1
               THEN /\ th' = [th EXCEPT ![t].pc = "alloc"]
                    /\ UNCHANGED <<store, req, pending, ops, content, contentSize, reads>>
               ELSE \E u \in UninitValues : DoChunk(t, Snapshot(w.k), u)
          ELSE /\ th' = [th EXCEPT ![t].pc = "outer", ![t].l1o = @ + 1, ![t].l2o = 0]
               /\ UNCHANGED <<store, req, pending, ops, content, contentSize, reads>>

\* getBlock allocates the block it found unallocated, then the iteration
\* writes to it
WriteAlloc(t) ==
    LET w == th[t]
    IN /\ w.pc = "alloc"
       /\ \E u \in UninitValues :
            DoChunk(t, allocateMetaBlockData(Snapshot(w.k), l1[w.l1o], w.l2o), u)

\* the server answered a padding read: writePaddedBlock writes the merged
\* frame and releases the request
writePaddedBlock(p) ==
    LET S == writeData([Snapshot(p.k) EXCEPT !.pending = @ \ {p}],
                       p.a, p.j, p.frame, BLOCK, p.size, p.at)
    IN /\ Commit(S)
       /\ Release(p.k, S)
       /\ UNCHANGED <<l1, nextL2, originalImageSize, th, ops, reads>>


-----------------------------------------------------------------------------
(* cowfile_read: walk the frames of the range, coalesce runs of frames of  *)
(* the same source (local, zero, remote) and fill the reply buffer run by  *)
(* run.  The loop variables are the record r; the result is the buffer    *)
(* r.data and the store r.st (getBlock allocates blocks it passes).       *)

getBlockDataSource(S, blk, bo, off) ==
    IF blk # NoBlock /\ bo \in S.meta[blk[1]][blk[2]].bits THEN "local"
    ELSE IF off >= originalImageSize THEN "zero"
    ELSE "remote"

\* readRemote: raise workCounter and hand a sub-request of size bytes at
\* offset to the connection (which never fails here)
readRemote(r, offset, size) ==
    [r EXCEPT !.counter = @ + 1, !.subs = @ \cup {[off |-> offset, length |-> size]}]

\* read the run [last, min(search, end)) from its source: a remote run is
\* sent with readRemote, a zero or local run adds its bytes to
\* bytesWorkedOn at once
ReadRun(r, e) ==
    LET size == Minimum(r.search, e) - r.last
        base == IF r.ds = "local"
                THEN r.st.meta[r.blk[1]][r.blk[2]].offset + ((r.last % L2CAP) % CAP)
                ELSE 0
        r1 == IF r.ds = "remote" THEN readRemote(r, r.last, size)
              ELSE [r EXCEPT !.worked = @ + size]
    IN [r1 EXCEPT
          !.data = [p \in DOMAIN @ |->
                      IF r.last <= p /\ p < r.last + size
                      THEN CASE r.ds = "remote" -> Orig(p)
                             [] r.ds = "zero"   -> Zero
                             [] OTHER           -> r.st.df[base + p - r.last]
                      ELSE @[p]],
          !.last = r.search, !.doRead = FALSE, !.first = TRUE]

ReadIter(r, e) ==
    LET src == getBlockDataSource(r.st, r.blk, r.bo, r.search)
        r1 == IF r.first THEN [r EXCEPT !.first = FALSE, !.last = r.search, !.ds = src]
              ELSE IF src # r.ds THEN [r EXCEPT !.doRead = TRUE]
              ELSE [r EXCEPT !.bo = @ + 1]
        l2n == r1.l2o + 1
        r2 == IF r1.bo >= FRAMES
              THEN [r1 EXCEPT !.bo = 0,
                              !.l2o = IF l2n >= L2SIZE THEN 0 ELSE l2n,
                              !.l1o = IF l2n >= L2SIZE THEN @ + 1 ELSE @,
                              !.upd = TRUE,
                              !.doRead = @ \/ r1.ds = "local"]
              ELSE r1
        r3 == [r2 EXCEPT !.search = BLOCK * r2.bo + r2.l2o * CAP + r2.l1o * L2CAP]
        r4 == IF r3.doRead \/ r3.search >= e THEN ReadRun(r3, e) ELSE r3
    IN IF ~r4.upd THEN r4
       ELSE IF l1[r4.l1o] # -1
       THEN [r4 EXCEPT !.st = getBlock(@, l1[r4.l1o], r4.l2o),
                       !.blk = <<l1[r4.l1o], r4.l2o>>, !.upd = FALSE]
       ELSE [r4 EXCEPT !.blk = NoBlock, !.upd = FALSE]

RECURSIVE ReadLoop(_, _)
ReadLoop(r, e) == IF r.search >= e THEN r ELSE ReadLoop(ReadIter(r, e), e)

\* mutant: the cow_request_t of a read starts with workCounter 0
ReadStateCounterZero(o, s) ==
    LET l1o == getL1Offset(o)
        l2o == getL2Offset(o)
        has == l1[l1o] # -1
    IN [search |-> o, last |-> o, bo |-> getBitfieldOffset(o), l1o |-> l1o, l2o |-> l2o,
        blk |-> IF has THEN <<l1[l1o], l2o>> ELSE NoBlock,
        ds |-> "none", first |-> TRUE, doRead |-> FALSE, upd |-> FALSE,
        data |-> [p \in o..o+s-1 |-> Junk], counter |-> 0, worked |-> 0, subs |-> {},
        st |-> IF has THEN getBlock(Snapshot(0), l1[l1o], l2o) ELSE Snapshot(0)]

\* the fresh cow_request_t (workCounter 1, the loop's own hold) and the
\* loop variables of cowfile_read before its loop
ReadState(o, s) ==
    LET l1o == getL1Offset(o)
        l2o == getL2Offset(o)
        has == l1[l1o] # -1
    IN [search |-> o, last |-> o, bo |-> getBitfieldOffset(o), l1o |-> l1o, l2o |-> l2o,
        blk |-> IF has THEN <<l1[l1o], l2o>> ELSE NoBlock,
        ds |-> "none", first |-> TRUE, doRead |-> FALSE, upd |-> FALSE,
        data |-> [p \in o..o+s-1 |-> Junk], counter |-> 1, worked |-> 0, subs |-> {},
        st |-> IF has THEN getBlock(Snapshot(0), l1[l1o], l2o) ELSE Snapshot(0)]

cowfile_read(o, s) == ReadLoop(ReadState(o, s), o + s)

\* the ranges FUSE may ask for: the kernel does not read past imageSize
ReadRanges == {w \in (0..MaxFile) \X (1..MaxFile) : w[1] + w[2] <= imageSize}

\* fuse_reply_buf with bytesWorkedOn bytes
ReplyRead(x) == [x EXCEPT !.state = "replied", !.reply = x.worked]

\* a read on a FUSE dispatcher thread, up to the end of its loop: the
\* remote sub-requests are handed to the connection and the loop's own
\* hold is still counted; the store changes only by the blocks getBlock
\* allocates
Read(o, s) ==
    LET r == cowfile_read(o, s)
        i == Cardinality({x \in Reads : rd[x].state # "none"}) + 1
    IN /\ i \in Reads
       /\ meta' = r.st.meta
       /\ dataFileSize' = r.st.dfs
       /\ rd' = [rd EXCEPT ![i] = [off |-> o, size |-> s, counter |-> r.counter,
                                  worked |-> r.worked, state |-> "loop", reply |-> 0]]
       /\ rpending' = rpending \cup {[i |-> i, off |-> q.off, length |-> q.length] : q \in r.subs}
       /\ UNCHANGED <<l1, nextL2, dataFile, imageSize, originalImageSize, req, th,
                      pending, ops, content, contentSize>>

\* mutant: the fetch_sub after the loop drops the hold without replying
ReadDoneNoReply(i) ==
    /\ rd[i].state = "loop"
    /\ rd' = [rd EXCEPT ![i] = [@ EXCEPT !.counter = @ - 1, !.state = "active"]]
    /\ UNCHANGED <<store, req, th, pending, ops, content, contentSize, rpending>>

\* after the loop (label fail): atomic_fetch_sub(&workCounter, 1) == 1
\* replies, when every remote read finished while the loop ran
ReadDone(i) ==
    LET x == [rd[i] EXCEPT !.counter = @ - 1, !.state = "active"]
    IN /\ rd[i].state = "loop"
       /\ rd' = [rd EXCEPT ![i] = IF rd[i].counter = 1 THEN ReplyRead(x) ELSE x]
       /\ UNCHANGED <<store, req, th, pending, ops, content, contentSize, rpending>>

\* the server answered a remote read (cowfile_handleCallback on the
\* connection's receive thread): readRemoteData adds its length to
\* bytesWorkedOn and the last one to finish replies to FUSE
readRemoteData(q) ==
    LET x == [rd[q.i] EXCEPT !.worked = @ + q.length, !.counter = @ - 1]
    IN /\ rpending' = rpending \ {q}
       /\ rd' = [rd EXCEPT ![q.i] = IF rd[q.i].counter = 1 THEN ReplyRead(x) ELSE x]
       /\ UNCHANGED <<store, req, th, pending, ops, content, contentSize>>

-----------------------------------------------------------------------------
(* cowfile_setSize.                                                        *)

clearBitsInBitfield(bits, from, to) == {i \in bits : i < from \/ to < i}

\* the loop "null all bitfields" from (l1o, l2o) to (l1End, l2End)
RECURSIVE ClearLoop(_, _, _, _, _)
ClearLoop(l1o, l2o, S, l1End, l2End) ==
    IF l1o > l1End \/ (l1o = l1End /\ l2End < l2o) THEN S
    ELSE IF l1[l1o] = -1 THEN ClearLoop(l1o + 1, 0, S, l1End, l2End)
    ELSE LET a == l1[l1o]
             S1 == getBlock(S, a, l2o)
             S2 == [S1 EXCEPT !.meta[a][l2o].bits = clearBitsInBitfield(@, 0, FRAMES)]
         IN IF l2o + 1 >= L2SIZE THEN ClearLoop(l1o + 1, 0, S2, l1End, l2End)
            ELSE ClearLoop(l1o, l2o + 1, S2, l1End, l2End)

\* growing the file: zero the partial frame at the new size in the block
\* at the old end, clear its bits from "start", then clear the bitfields of
\* every block up to the new end
GrowStore(S, size) ==
    LET l1o == getL1Offset(imageSize)
        l2o == getL2Offset(imageSize)
        a == l1[l1o]
        partial == size % BLOCK # 0 /\ a # -1
        Sb == getBlock(S, a, l2o)
        inB == size % BLOCK
        base == Sb.meta[a][l2o].offset + inB
        blockOffset == l1o * L2CAP + l2o * CAP
        start == Minimum(CDiv(imageSize - blockOffset, BLOCK), 0)
        S1 == [Sb EXCEPT
                 !.df = [x \in DOMAIN @ |-> IF base <= x /\ x < base + (BLOCK - inB)
                                            THEN Zero ELSE @[x]],
                 !.meta[a][l2o].bits = clearBitsInBitfield(@, start, FRAMES)]
        l2n == l2o + 1
    IN IF ~partial
       THEN ClearLoop(l1o, l2o, S, getL1Offset(size), getL2Offset(size))
       ELSE ClearLoop(IF l2n >= L2SIZE THEN l1o + 1 ELSE l1o, IF l2n >= L2SIZE THEN 0 ELSE l2n,
                      S1, getL1Offset(size), getL2Offset(size))

\* a truncate or extension, issued when no write is in flight
SetSize(size) ==
    LET S == IF imageSize < size THEN GrowStore(Snapshot(0), size) ELSE Snapshot(0)
    IN /\ \A t \in Threads : th[t].pc = "idle"
       /\ pending = {}
       /\ ops < MaxOps
       /\ ops' = ops + 1
       /\ Commit(S)
       /\ originalImageSize' = IF size < originalImageSize THEN size ELSE originalImageSize
       /\ imageSize' = size
       /\ content' = [p \in Positions |-> IF p < size THEN content[p] ELSE Zero]
       /\ contentSize' = size
       /\ UNCHANGED <<l1, nextL2, req, th, reads>>

-----------------------------------------------------------------------------

\* cowfile_init: empty L1, dataFileSize past the data file's header, both
\* sizes the size of the image on the server
Init ==
    /\ l1 = [i \in 0..L1SIZE-1 |-> -1]
    /\ nextL2 = 0
    /\ meta = [a \in 0..L1SIZE-1 |-> [j \in 0..L2SIZE-1 |-> [offset |-> -1, bits |-> {}]]]
    /\ dataFileSize = CAP
    /\ dataFile = [x \in 0..DataMax-1 |-> Zero]
    /\ imageSize = ORIGIN_SIZE
    /\ originalImageSize = ORIGIN_SIZE
    /\ req = [k \in Ops |-> [off |-> 0, size |-> 0, counter |-> 0, worked |-> 0,
                             state |-> "none", reply |-> 0, lo |-> 0, hi |-> 0]]
    /\ th = [t \in Threads |-> Idle]
    /\ pending = {}
    /\ ops = 0
    /\ content = [p \in Positions |-> IF p < ORIGIN_SIZE THEN Orig(p) ELSE Zero]
    /\ contentSize = ORIGIN_SIZE
    /\ rd = [i \in Reads |-> [off |-> 0, size |-> 0, counter |-> 0, worked |-> 0,
                              state |-> "none", reply |-> 0]]
    /\ rpending = {}

\* the client has issued all its writes and every one was answered
Terminating ==
    /\ ops = MaxOps
    /\ \A t \in Threads : th[t].pc = "idle"
    /\ pending = {} /\ rpending = {}
    /\ UNCHANGED vars

Next ==
    \/ \E t \in Threads :
         \/ \E w \in WriteOps : WriteBegin(t, w[1], w[2])
         \/ WriteOuter(t)
         \/ WriteInner(t)
         \/ WriteAlloc(t)
    \/ \E p \in pending : writePaddedBlock(p)
    \/ \E q \in rpending : readRemoteData(q)
    \/ \E w \in ReadOps \cap ReadRanges : Read(w[1], w[2])
    \/ \E i \in Reads : ReadDone(i)
    \/ \E n \in SizeOps : SetSize(n)
    \/ Terminating

ThreadStep(t) == WriteOuter(t) \/ WriteInner(t) \/ WriteAlloc(t)

(* The dispatcher threads and the connection's receive thread keep       *)
(* running: weak fairness of each thread's steps and of the callbacks of   *)
(* padding and remote reads; a read's thread goes on past its loop.  A busy thread has exactly one of its steps   *)
(* enabled and every step changes its loop variables, so ENABLED           *)
(* <<ThreadStep(t)>>_vars is th[t].pc # "idle"; likewise a callback is     *)
(* enabled exactly when a sub-request is in flight.  WF is written out    *)
(* with these conditions: []<>~ENABLED \/ []<><<A>>.                       *)
Fairness ==
    /\ \A t \in Threads : []<>(th[t].pc = "idle") \/ []<><<ThreadStep(t)>>_vars
    /\ []<>(pending = {}) \/ []<><<\E p \in pending : writePaddedBlock(p)>>_vars
    /\ []<>(rpending = {}) \/ []<><<\E q \in rpending : readRemoteData(q)>>_vars
    /\ \A i \in Reads : []<>(rd[i].state # "loop") \/ []<><<ReadDone(i)>>_vars

Spec == Init /\ [][Next]_vars /\ Fairness

-----------------------------------------------------------------------------
(* Properties.                                                             *)

Value == {Zero, Junk} \cup {Orig(p) : p \in 0..ORIGIN_SIZE-1}
         \cup {Data(k, j) : k \in Ops, j \in 0..MaxFile}
Pc == {"idle", "outer", "inner", "alloc"}

TypeOK ==
    /\ l1 \in [0..L1SIZE-1 -> -1..L1SIZE-1]
    /\ nextL2 \in 0..L1SIZE
    /\ \A a \in 0..L1SIZE-1, j \in 0..L2SIZE-1 :
         /\ meta[a][j].offset \in {-1} \cup (0..DataMax)
         /\ meta[a][j].bits \subseteq Frames
    /\ dataFileSize \in 0..DataMax - CAP - BLOCK
    /\ dataFile \in [0..DataMax-1 -> Value]
    /\ imageSize \in 0..MaxImage /\ originalImageSize \in 0..ORIGIN_SIZE
    /\ \A k \in Ops : req[k].state \in {"none", "active", "replied"} /\ req[k].counter \in 0..MaxFile
    /\ \A t \in Threads : th[t].pc \in Pc
    /\ ops \in 0..MaxOps
    /\ \A i \in Reads : rd[i].state \in {"none", "loop", "active", "replied"} /\ rd[i].counter \in 0..MaxFile

Quiescent == (\A t \in Threads : th[t].pc = "idle") /\ pending = {}

\* the call frames of cowfile_write that request k has open on a thread
OpenCalls(k) ==
    {<<t, n>> \in Threads \X {1, 2} :
        th[t].pc # "idle" /\ th[t].k = k /\ (n = 2 => th[t].outer # NoCall)}

(* The workCounter of a write request, raised by the padding call beyond  *)
(* the end and by every padding read sent to the server and lowered by    *)
(* the returns of cowfile_write and by writePaddedBlock on the            *)
(* connection's receive thread, always counts exactly the calls still     *)
(* open and the padding reads still in flight; so FUSE gets its reply    *)
(* only after the last of them, and never twice.                          *)
WorkCounterAccounts ==
    \A k \in Ops :
        LET inflight == {p \in pending : p.k = k}
        IN /\ req[k].state = "active" =>
                req[k].counter = Cardinality(OpenCalls(k)) + Cardinality(inflight)
           /\ req[k].state = "replied" => OpenCalls(k) = {} /\ inflight = {}

(* Every write FUSE hands to cowfile_write is eventually answered, however *)
(* its padding reads and the loops of other writes interleave, provided    *)
(* the server answers every read.                                          *)
WritesComplete == \A k \in Ops : req[k].state = "active" ~> req[k].state = "replied"

(* The workCounter and bytesWorkedOn of a read: while FUSE waits for it, *)
(* the counter is exactly its remote reads in flight, plus cowfile_read's *)
(* own hold until the fetch_sub after its loop, and bytesWorkedOn plus     *)
(* their lengths is the size asked for; once replied, no remote read of   *)
(* it is left to write into the freed buffer and the reply has every byte.*)
ReadWorkAccounts ==
    \A i \in Reads :
        LET inflight == {q \in rpending : q.i = i}
            hold == IF rd[i].state = "loop" THEN 1 ELSE 0
        IN /\ rd[i].state \in {"loop", "active"} =>
                /\ rd[i].counter = Cardinality(inflight) + hold
                /\ rd[i].worked + MapThenSumSet(LAMBDA q : q.length, inflight) = rd[i].size
           /\ rd[i].state = "replied" => inflight = {} /\ rd[i].reply = rd[i].size

(* Every read FUSE hands to cowfile_read is eventually answered: by the   *)
(* last remote read to finish on the receive thread, or, when they all    *)
(* finished before the loop ended, by cowfile_read's own fetch_sub;       *)
(* provided the server answers every read.                                 *)
ReadsComplete == \A i \in Reads : rd[i].state \in {"loop", "active"} ~> rd[i].state = "replied"

(* When no request is in flight, the file FUSE shows is the file the      *)
(* client wrote: imageSize is the size it made the file, and every read   *)
(* cowfile_read can serve returns its bytes, the original bytes where it  *)
(* never wrote and zeros past a truncation or an extension.               *)
FileMatchesContent ==
    Quiescent =>
        /\ imageSize = contentSize
        /\ \A w \in ReadRanges :
              cowfile_read(w[1], w[2]).data = [p \in w[1]..w[1]+w[2]-1 |-> content[p]]

=============================================================================
