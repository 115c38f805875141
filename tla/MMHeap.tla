------------------------------- MODULE MMHeap -------------------------------
(***************************************************************************)
(* The allocator of mm.c driven by a client: the coalescer, heap           *)
(* extension, splitting, bounded best-fit placement, mm_init, malloc,      *)
(* free, realloc and calloc.  Each public call is one step: the allocator  *)
(* is single-threaded and every call runs to completion before the next.  *)
(* A call is an operator from the allocator state                          *)
(*   h = [mem |-> arena words, brk |-> bytes obtained from mem_sbrk,       *)
(*        hs |-> heap_start, seg |-> segregated_free_list]                 *)
(* to a result record, composed exactly as the C functions call one        *)
(* another.  The client writes its data into every block it receives, so   *)
(* a write of the allocator into a live payload is visible.                *)
(***************************************************************************)
EXTENDS MMFreeList, Sequences, TLC

CONSTANTS
    HEAP_LO,        \* address of the first arena byte (mem_heap_lo)
    MAX_HEAP,       \* bytes memlib's mem_sbrk can hand out in total
    CHUNKSIZE,      \* chunksize: the minimum heap extension (2048 in mm.c)
    SEARCH_LIMIT,   \* SEARCH_LIMIT of find_fit (10 in mm.c)
    CLOSE_ENOUGH,   \* CLOSE_ENOUGH of find_fit (46 in mm.c)
    JUNK,           \* contents of arena words never written
    Requests,       \* byte counts the client passes to malloc and realloc
    CallocRequests  \* <<elements, size>> pairs the client passes to calloc

ASSUME HEAP_LO % DSIZE = 0 /\ HEAP_LO > 3 * WSIZE
ASSUME MAX_HEAP % DSIZE = 0 /\ CHUNKSIZE % DSIZE = 0 /\ CHUNKSIZE > 0
ASSUME JUNK \in Int /\ Requests \subseteq Nat \ {0}

VARIABLES
    mem,          \* the arena: word address -> word
    brk,          \* bytes of the arena handed out by mem_sbrk
    heap_start,   \* heap_start
    seg,          \* segregated_free_list[0 .. 14]
    live          \* client: payload pointer -> [req, tag] of its data

vars == <<mem, brk, heap_start, seg, live>>

Addr == {HEAP_LO + WSIZE * i : i \in 0 .. (MAX_HEAP \div WSIZE) - 1}
SBRK_FAIL == -1

\* Block headers sit one word below a 16-aligned payload.
BlockAddr == {a \in Addr : a % DSIZE = WSIZE}

St == [mem |-> mem, brk |-> brk, hs |-> heap_start, seg |-> seg]

(***************************************************************************)
(* memlib's mem_sbrk (not part of mm.c): fails on a negative increment or  *)
(* when the arena would exceed MAX_HEAP, else returns the old break.       *)
(***************************************************************************)
MemSbrk(h, incr) ==
    IF incr < 0 \/ h.brk + incr > MAX_HEAP
    THEN [h |-> h, p |-> SBRK_FAIL]
    ELSE [h |-> [h EXCEPT !.brk = @ + incr], p |-> HEAP_LO + h.brk]

\* Takes the free neighbour nb off its list when free holds.
Absorb(h, free, nb) == IF free THEN DeleteNormalOrMini(h, nb) ELSE h

\* The end of coalesce_block: tell the successor of the merged block that
\* its predecessor is free and not mini.
Merged(h, start) ==
    [h |-> SetMem(h, SetNextFlags(h.mem, start, FALSE, FALSE)), b |-> start]

\* Writes the merged free block of size bytes at start and lists it.
WriteMerged(h, start, size, prev_alloc, prev_mini) ==
    Merged(InsertNormalOrMini(
             SetMem(h, WriteBlock(h.mem, start, size, FALSE, prev_alloc, prev_mini)),
             start),
           start)

\* Mutant: the merged block is written at block, never moved back to
\* block_prev (the `block = block_prev` update is missing).
CoalesceBlockNoRebase(h, block) ==
    LET m == h.mem
        block_next == FindNext(m, block)
        prev_alloc == GetPrevAlloc(m, block)
        next_alloc == GetAlloc(m, block_next)
        block_prev == FindPrev(m, block)
        size == GetSize(m, block)
                + (IF next_alloc THEN 0 ELSE GetSize(m, block_next))
                + (IF prev_alloc THEN 0 ELSE GetSize(m, block_prev))
    IN  IF prev_alloc /\ next_alloc
        THEN [h |-> InsertNormalOrMini(h, block), b |-> block]
        ELSE WriteMerged(Absorb(Absorb(h, ~next_alloc, block_next), ~prev_alloc, block_prev),
                         block, size, GetPrevAlloc(m, block), GetPrevMini(m, block))

(***************************************************************************)
(* coalesce_block: merge the free block with a free physical predecessor  *)
(* and/or successor.  The absorbed neighbours leave their lists (the       *)
(* successor first) while they still carry their own headers; the merged  *)
(* block keeps the flags of its first block, goes on a list, and its       *)
(* successor is told that its predecessor is free and not mini.  With both *)
(* neighbours allocated the block is only inserted.                        *)
(***************************************************************************)
CoalesceBlock(h, block) ==
    LET m == h.mem
        block_next == FindNext(m, block)
        prev_alloc == GetPrevAlloc(m, block)
        next_alloc == GetAlloc(m, block_next)
        block_prev == FindPrev(m, block)
        start == IF prev_alloc THEN block ELSE block_prev
        size == GetSize(m, block)
                + (IF next_alloc THEN 0 ELSE GetSize(m, block_next))
                + (IF prev_alloc THEN 0 ELSE GetSize(m, block_prev))
    IN  IF prev_alloc /\ next_alloc
        THEN [h |-> InsertNormalOrMini(h, block), b |-> block]
        ELSE WriteMerged(Absorb(Absorb(h, ~next_alloc, block_next), ~prev_alloc, block_prev),
                         start, size, GetPrevAlloc(m, start), GetPrevMini(m, start))

(***************************************************************************)
(* extend_heap: the new region's header overwrites the old epilogue and    *)
(* inherits its flags, a new epilogue follows, and the block is coalesced *)
(* with a free last block.  r is mem_sbrk's result for sz bytes.           *)
(***************************************************************************)
ExtendHeapAt(h, r, sz) ==
    LET block == PayloadToHeader(r.p)
        m == r.h.mem
        m1 == WriteBlock(m, block, sz, FALSE,
                         GetPrevAlloc(m, block), GetPrevMini(m, block))
    IN  IF r.p = SBRK_FAIL THEN [h |-> h, b |-> NULL]
        ELSE CoalesceBlock(SetMem(r.h, WriteEpilogue(m1, FindNext(m1, block), FALSE,
                                                     sz = MIN_BLOCK_SIZE)),
                           block)

ExtendHeap(h, size) ==
    ExtendHeapAt(h, MemSbrk(h, RoundUp(size, DSIZE)), RoundUp(size, DSIZE))

\* Mutant: the remainder's successor is not told its predecessor is free.
SplitBlockNoSuccessorFlags(h, block, asize) ==
    LET m == h.mem
        rest == SizeT(GetSize(m, block) - asize)
        m1 == WriteBlock(m, block, asize, TRUE,
                         GetPrevAlloc(m, block), GetPrevMini(m, block))
    IN  IF rest >= MIN_BLOCK_SIZE
        THEN InsertNormalOrMini(
               SetMem(h, WriteBlock(m1, FindNext(m1, block), rest, FALSE, TRUE,
                                    asize = MIN_BLOCK_SIZE)),
               FindNext(m1, block))
        ELSE h

\* The free remainder of rest bytes after block, whose header m1 already
\* shrank: its header and footer, its successor's flags, its list.
SplitRemainder(h, m1, block, rest, asize) ==
    LET block_next == FindNext(m1, block)
    IN  InsertNormalOrMini(
          SetMem(h, SetNextFlags(WriteBlock(m1, block_next, rest, FALSE, TRUE,
                                            asize = MIN_BLOCK_SIZE),
                                 block_next, FALSE, rest = MIN_BLOCK_SIZE)),
          block_next)

(***************************************************************************)
(* split_block: carve asize bytes off the allocated block; a remainder of  *)
(* at least 16 bytes becomes a free block, its successor's flags are set,  *)
(* and it goes on a list.                                                  *)
(***************************************************************************)
SplitBlock(h, block, asize) ==
    LET m == h.mem
        rest == SizeT(GetSize(m, block) - asize)
    IN  IF rest >= MIN_BLOCK_SIZE
        THEN SplitRemainder(h, WriteBlock(m, block, asize, TRUE,
                                          GetPrevAlloc(m, block), GetPrevMini(m, block)),
                            block, rest, asize)
        ELSE h

\* Mutant: the scan returns at the limit instead of moving to the next bucket.
FindFitStopsAtLimit(h, asize) ==
    LET first == GetListIndex(asize)
        ListHead(i) == IF i < SEG_LIST_NUM THEN h.seg[i] ELSE NULL
        RECURSIVE Scan(_, _, _, _, _)
        Scan(i, block, cont, best, min_diff) ==
            IF i >= SEG_LIST_NUM THEN best
            ELSE IF block = NULL THEN Scan(i + 1, ListHead(i + 1), cont, best, min_diff)
            ELSE LET size == GetSize(h.mem, block)
                     better == size >= asize /\ size - asize < min_diff
                     best1 == IF better THEN block ELSE best
                     diff1 == IF better THEN size - asize ELSE min_diff
                 IN  IF size >= asize /\ diff1 <= CLOSE_ENOUGH THEN best1
                     ELSE IF cont > SEARCH_LIMIT THEN best1
                     ELSE Scan(i, Word(h.mem, NextSlot(block)), cont + 1, best1, diff1)
    IN  IF first = 0 /\ h.seg[0] # NULL THEN h.seg[0]
        ELSE Scan(first, ListHead(first), 0, NULL, SIZE_MAX)

(***************************************************************************)
(* find_fit: a mini request takes the head of the mini list.  Otherwise    *)
(* the lists from the request's bucket upward are scanned, keeping the     *)
(* fitting block with the least surplus and returning at once when that    *)
(* surplus is at most CLOSE_ENOUGH.  The counter cont is shared by all     *)
(* buckets and reset only when it passes SEARCH_LIMIT, which ends the scan *)
(* of the current bucket.                                                  *)
(***************************************************************************)
FindFit(h, asize) ==
    LET first == GetListIndex(asize)
        ListHead(i) == IF i < SEG_LIST_NUM THEN h.seg[i] ELSE NULL
        RECURSIVE Scan(_, _, _, _, _)
        Scan(i, block, cont, best, min_diff) ==
            IF i >= SEG_LIST_NUM THEN best
            ELSE IF block = NULL THEN Scan(i + 1, ListHead(i + 1), cont, best, min_diff)
            ELSE LET size == GetSize(h.mem, block)
                     fits == size >= asize
                     better == fits /\ size - asize < min_diff
                     best1 == IF better THEN block ELSE best
                     diff1 == IF better THEN size - asize ELSE min_diff
                 IN  IF fits /\ diff1 <= CLOSE_ENOUGH THEN best1
                     ELSE IF cont > SEARCH_LIMIT
                     THEN Scan(i + 1, ListHead(i + 1), 0, best1, diff1)
                     ELSE Scan(i, Word(h.mem, NextSlot(block)), cont + 1, best1, diff1)
    IN  IF first = 0 /\ h.seg[0] # NULL THEN h.seg[0]
        ELSE Scan(first, ListHead(first), 0, NULL, SIZE_MAX)

(***************************************************************************)
(* mm_init: clear the list heads, take 16 bytes for prologue and epilogue, *)
(* point heap_start at the epilogue and extend by chunksize.  r is         *)
(* mem_sbrk's result for the 16 bytes, h1 the state with cleared lists.    *)
(***************************************************************************)
\* mm_init succeeds when extend_heap, whose result is e, does.
MmInitDone(e) == [h |-> e.h, ok |-> e.b # NULL]

MmInitAt(h1, r) ==
    IF r.p = SBRK_FAIL THEN [h |-> h1, ok |-> FALSE]
    ELSE MmInitDone(ExtendHeap([r.h EXCEPT !.mem = [@ EXCEPT ![r.p] = Pack(0, TRUE, TRUE, FALSE),
                                                          ![r.p + WSIZE] = Pack(0, TRUE, TRUE, FALSE)],
                                        !.hs = r.p + WSIZE],
                               CHUNKSIZE))

MmInitOp(h) ==
    LET h1 == [h EXCEPT !.seg = [i \in 0 .. SEG_LIST_NUM - 1 |-> NULL]]
    IN  MmInitAt(h1, MemSbrk(h1, 2 * WSIZE))

\* malloc after the block is found (in ext, NULL when extend_heap failed):
\* unlink it, mark it allocated, tell its
\* successor, and split off the surplus.
MallocMark(h1, block, asize) ==
    LET block_size == GetSize(h1.mem, block)
        m1 == WriteBlock(h1.mem, block, block_size, TRUE,
                         GetPrevAlloc(h1.mem, block), GetPrevMini(h1.mem, block))
    IN  [h |-> SplitBlock(SetMem(h1, SetNextFlags(m1, block, TRUE,
                                                  block_size = MIN_BLOCK_SIZE)),
                          block, asize),
         bp |-> HeaderToPayload(block)]

MallocPlace(ext, asize) ==
    IF ext.b = NULL THEN [h |-> ext.h, bp |-> NULL]
    ELSE MallocMark(DeleteNormalOrMini(ext.h, ext.b), ext.b, asize)

\* malloc after find_fit: with no fit, extend by max(asize, chunksize).
MallocFit(h, asize, fit) ==
    MallocPlace(IF fit = NULL THEN ExtendHeap(h, MaxOf(asize, CHUNKSIZE))
                ELSE [h |-> h, b |-> fit],
                asize)

\* malloc after the lazy mm_init: reject size 0, else search.
MallocInited(init, size) ==
    IF ~init.ok \/ size = 0 THEN [h |-> init.h, bp |-> NULL]
    ELSE MallocFit(init.h, AdjustSize(size), FindFit(init.h, AdjustSize(size)))

(***************************************************************************)
(* malloc: initialise lazily, reject size 0, find a fit or extend the heap *)
(* by max(asize, chunksize), unlink the block, mark it allocated, tell its *)
(* successor, and split off the surplus.                                   *)
(***************************************************************************)
MallocOp(h, size) ==
    MallocInited(IF h.hs = NULL THEN MmInitOp(h) ELSE [h |-> h, ok |-> TRUE], size)

(***************************************************************************)
(* free: mark the block free (with a footer unless mini), tell its         *)
(* successor, and coalesce.                                                *)
(***************************************************************************)
FreeBlock(h, block) ==
    LET m == h.mem
        size == GetSize(m, block)
        m1 == WriteBlock(m, block, size, FALSE,
                         GetPrevAlloc(m, block), GetPrevMini(m, block))
    IN  CoalesceBlock(SetMem(h, SetNextFlags(m1, block, FALSE, size = MIN_BLOCK_SIZE)),
                      block).h

FreeOp(h, bp) == IF bp = NULL THEN h ELSE FreeBlock(h, PayloadToHeader(bp))

\* The words holding bytes [p, p + n).
Covered(p, n) == {p + WSIZE * k : k \in 0 .. ((n + WSIZE - 1) \div WSIZE) - 1}

\* memcpy(dst, src, n), word by word.
MemCpy(m, dst, src, n) ==
    [a \in DOMAIN m |-> IF a \in Covered(dst, n) THEN Word(m, src + (a - dst)) ELSE m[a]]

\* memset(p, 0, n).
MemSetZero(m, p, n) ==
    [a \in DOMAIN m |-> IF a \in Covered(p, n) THEN 0 ELSE m[a]]

\* realloc after malloc returned r: copy min(size, oldsize) bytes of ptr.
ReallocCopy(r, ptr, size, oldsize) ==
    IF r.bp = NULL THEN [h |-> r.h, bp |-> NULL]
    ELSE [h |-> SetMem(r.h, MemCpy(r.h.mem, r.bp, ptr,
                                   IF size < oldsize THEN size ELSE oldsize)),
          bp |-> r.bp]

\* Mutant: the old block is freed before the new one is allocated and filled.
ReallocOpFreeFirst(h, ptr, size) ==
    IF size = 0 THEN [h |-> FreeOp(h, ptr), bp |-> NULL]
    ELSE IF ptr = NULL THEN MallocOp(h, size)
    ELSE ReallocCopy(MallocOp(FreeOp(h, ptr), size), ptr, size,
                     GetPayloadSize(h.mem, PayloadToHeader(ptr)))

\* realloc after malloc returned r: copy, then free the old block.
ReallocMove(r, ptr, size) ==
    LET c == ReallocCopy(r, ptr, size, GetPayloadSize(r.h.mem, PayloadToHeader(ptr)))
    IN  IF r.bp = NULL THEN c ELSE [h |-> FreeOp(c.h, ptr), bp |-> c.bp]

(***************************************************************************)
(* realloc: size 0 frees, a NULL pointer mallocs; otherwise malloc a new   *)
(* block, copy min(size, old payload size) bytes and free the old block.  *)
(* A failed malloc leaves the old block in place.                          *)
(***************************************************************************)
ReallocOp(h, ptr, size) ==
    IF size = 0 THEN [h |-> FreeOp(h, ptr), bp |-> NULL]
    ELSE IF ptr = NULL THEN MallocOp(h, size)
    ELSE ReallocMove(MallocOp(h, size), ptr, size)

\* calloc after malloc returned r: zero asize bytes.
CallocZero(r, asize) ==
    IF r.bp = NULL THEN r
    ELSE [h |-> SetMem(r.h, MemSetZero(r.h.mem, r.bp, asize)), bp |-> r.bp]

(***************************************************************************)
(* calloc: reject zero elements and an overflowing product, malloc, zero.  *)
(***************************************************************************)
CallocOp(h, elements, size) ==
    IF elements = 0 \/ CallocOverflows(elements, size) THEN [h |-> h, bp |-> NULL]
    ELSE CallocZero(MallocOp(h, CallocBytes(elements, size)), CallocBytes(elements, size))

-----------------------------------------------------------------------------
(***************************************************************************)
(* The client.  It frees only pointers it holds (a double free or a free   *)
(* of a foreign pointer is undefined behaviour), and after each call that  *)
(* hands it a block it writes its data, a tag, into the bytes it asked     *)
(* for.  A moved realloc block keeps the tag of the old one; the client    *)
(* writes only the bytes realloc did not copy.  calloc data is zero.       *)
(***************************************************************************)
\* The data the client writes after asking for n bytes (a negative word,
\* so that it reads as neither a pointer nor a plausible header).
Tag(n) == -n

Commit(h) ==
    /\ mem' = h.mem
    /\ brk' = h.brk
    /\ heap_start' = h.hs
    /\ seg' = h.seg

\* The client writes tag into bytes [p + keep, p + n) of a new block.
Fill(m, p, keep, n, tag) ==
    [a \in DOMAIN m |-> IF a \in Covered(p, n) \ Covered(p, keep) THEN tag ELSE m[a]]

Forget(p) == [q \in DOMAIN live \ {p} |-> live[q]]

Init ==
    /\ mem = [a \in Addr |-> JUNK]
    /\ brk = 0
    /\ heap_start = NULL
    /\ seg = [i \in 0 .. SEG_LIST_NUM - 1 |-> NULL]
    /\ live = <<>>

\* The driver calls mm_init once before any other call.
MmInit ==
    /\ heap_start = NULL
    /\ Commit(MmInitOp(St).h)
    /\ UNCHANGED live

\* The client receives r from a call that asked for n bytes; it writes tag
\* into the bytes from keep on (the first keep were copied by realloc) and
\* holds r.bp in place of old.
Receive(r, old, n, keep, tag) ==
    IF r.bp = NULL
    THEN Commit(r.h) /\ live' = IF n = 0 THEN Forget(old) ELSE live
    ELSE /\ Commit(SetMem(r.h, Fill(r.h.mem, r.bp, keep, n, tag)))
         /\ live' = [q \in (DOMAIN live \ {old}) \cup {r.bp} |->
                       IF q = r.bp THEN [req |-> n, tag |-> tag] ELSE live[q]]

Malloc(n) == Receive(MallocOp(St, n), NULL, n, 0, Tag(n))

Free(p) ==
    /\ Commit(FreeOp(St, p))
    /\ live' = Forget(p)

Realloc(p, n) ==
    Receive(ReallocOp(St, p, n), p, n,
            IF p = NULL THEN 0 ELSE IF n < live[p].req THEN n ELSE live[p].req,
            IF p = NULL THEN Tag(n) ELSE live[p].tag)

\* calloc's block arrives zeroed: the client writes nothing.
Calloc(e, s) ==
    Receive(CallocOp(St, e, s), NULL, CallocBytes(e, s), CallocBytes(e, s), 0)

Held == DOMAIN live \cup {NULL}

Next ==
    \/ MmInit
    \/ \E n \in Requests \cup {0} : Malloc(n)
    \/ \E p \in Held : Free(p)
    \/ \E p \in Held, n \in Requests \cup {0} : Realloc(p, n)
    \/ \E r \in CallocRequests : Calloc(r[1], r[2])

Spec == Init /\ [][Next]_vars

\* A second call of mm_init, on a heap that is initialised already.
MmInitAgain ==
    /\ heap_start # NULL
    /\ Commit(MmInitOp(St).h)
    /\ UNCHANGED live

ReInitSpec == Init /\ [][Next \/ MmInitAgain]_vars

-----------------------------------------------------------------------------
(***************************************************************************)
(* Views of the heap used by the properties.                               *)
(***************************************************************************)
Epilogue == HEAP_LO + brk - WSIZE

\* The block headers met by following find_next from b, up to the first
\* header of size 0; fuel bounds a walk over a corrupted heap.
RECURSIVE Walk(_, _, _)
Walk(m, b, fuel) ==
    IF fuel = 0 \/ b \notin DOMAIN m \/ GetSize(m, b) <= 0 THEN <<>>
    ELSE <<b>> \o Walk(m, FindNext(m, b), fuel - 1)

Blocks == IF heap_start = NULL THEN <<>>
          ELSE Walk(mem, heap_start, MAX_HEAP \div DSIZE + 1)

BlockSet == {Blocks[i] : i \in DOMAIN Blocks}
FreeBlocks == {b \in BlockSet : ~GetAlloc(mem, b)}
AllocatedBlocks == BlockSet \ FreeBlocks

\* The blocks of a free list, following the link word at offset off from
\* each block; an address outside the arena or running out of fuel ends
\* the chain with an element that is no block.
RECURSIVE Chain(_, _, _, _)
Chain(m, b, off, fuel) ==
    IF b = NULL THEN <<>>
    ELSE IF fuel = 0 \/ b + off \notin DOMAIN m THEN <<SBRK_FAIL>>
    ELSE <<b>> \o Chain(m, m[b + off], off, fuel - 1)

List(i) == Chain(mem, seg[i], IF i = 0 THEN WSIZE ELSE 2 * WSIZE,
                 MAX_HEAP \div DSIZE + 1)

(***************************************************************************)
(* The words a correct call can read: the prologue, every header and the   *)
(* epilogue, the footer and link words of free blocks, and the client's    *)
(* bytes in live blocks.  Every other word is stale; mm.c never reads it,  *)
(* so states that differ only there are one state to the model checker    *)
(* (the VIEW of the runs).                                                 *)
(***************************************************************************)
Meaningful ==
    IF heap_start = NULL THEN {}
    ELSE {heap_start - WSIZE, Epilogue} \cup BlockSet
         \cup UNION {IF GetSize(mem, b) = MIN_BLOCK_SIZE THEN {NextMiniSlot(b)}
                     ELSE {PrevSlot(b), NextSlot(b), HeaderToFooter(mem, b)}
                     : b \in FreeBlocks}
         \cup UNION {Covered(p, live[p].req) : p \in DOMAIN live}

View == <<[a \in Meaningful \cap Addr |-> mem[a]], brk, heap_start, seg, live>>

-----------------------------------------------------------------------------
TypeOK ==
    /\ DOMAIN mem = Addr /\ \A a \in Addr : mem[a] \in Int
    /\ brk \in 0 .. MAX_HEAP
    /\ heap_start \in BlockAddr \cup {NULL}
    /\ seg \in [0 .. SEG_LIST_NUM - 1 -> BlockAddr \cup {NULL}]
    /\ DOMAIN live \subseteq {HeaderToPayload(b) : b \in BlockAddr}
    /\ \A p \in DOMAIN live : live[p] \in [req : Nat, tag : Int]

(***************************************************************************)
(* The implicit list is sound (the invariants mm_checkheap is meant to     *)
(* establish, section 3 I1-I5 of the spec): walking find_next from         *)
(* heap_start ends exactly at the epilogue word below the break; every     *)
(* block is 16-aligned with a size that is a multiple of 16; each header's *)
(* prev_alloc and prev_mini describe the block before it (the prologue     *)
(* for the first block); a free normal block's footer equals its header;   *)
(* and no two neighbours are both free.  find_prev and coalesce_block      *)
(* trust exactly these facts, and free, malloc, split_block, extend_heap   *)
(* and coalesce_block must each restore them.                              *)
(***************************************************************************)
HeapConsistent ==
    heap_start # NULL =>
    LET n == Len(Blocks)
        chain == Blocks \o <<Epilogue>>
        last == IF n = 0 THEN heap_start ELSE FindNext(mem, Blocks[n])
    IN  /\ mem[heap_start - WSIZE] = Pack(0, TRUE, TRUE, FALSE)
        /\ last = Epilogue
        /\ GetSize(mem, Epilogue) = 0 /\ GetAlloc(mem, Epilogue)
        /\ GetPrevAlloc(mem, chain[1]) /\ ~GetPrevMini(mem, chain[1])
        /\ \A i \in 1 .. n :
             LET b == Blocks[i]
                 size == GetSize(mem, b)
             IN  /\ size % DSIZE = 0
                 /\ HeaderToPayload(b) % DSIZE = 0
                 /\ GetPrevAlloc(mem, chain[i + 1]) = GetAlloc(mem, b)
                 /\ GetPrevMini(mem, chain[i + 1]) = (size = MIN_BLOCK_SIZE)
                 /\ (~GetAlloc(mem, b) /\ size > MIN_BLOCK_SIZE)
                      => mem[HeaderToFooter(mem, b)] = mem[b]
                 /\ (i < n /\ ~GetAlloc(mem, b)) => GetAlloc(mem, Blocks[i + 1])

(***************************************************************************)
(* The segregated lists hold exactly the free blocks (I6-I8): every chain  *)
(* ends in NULL inside the arena, list 0 holds the free 16-byte blocks and *)
(* list i > 0 the free normal blocks of bucket i, each block once; in the  *)
(* doubly linked lists the head's prev is NULL and every prev points back  *)
(* along next.  delete_from_free_list and delete_from_mini_free_list rely  *)
(* on it to unlink in place, and find_fit to return only free blocks.      *)
(***************************************************************************)
FreeListsExact ==
    heap_start # NULL =>
    /\ \A i \in 0 .. SEG_LIST_NUM - 1 :
         LET l == List(i)
         IN  /\ \A k \in 1 .. Len(l) :
                  /\ l[k] \in FreeBlocks
                  /\ IF i = 0 THEN GetSize(mem, l[k]) = MIN_BLOCK_SIZE
                     ELSE /\ GetSize(mem, l[k]) > MIN_BLOCK_SIZE
                          /\ GetListIndex(GetSize(mem, l[k])) = i
                          /\ mem[PrevSlot(l[k])] = IF k = 1 THEN NULL ELSE l[k - 1]
    /\ \A b \in FreeBlocks :
         LET i == IF GetSize(mem, b) = MIN_BLOCK_SIZE THEN 0
                  ELSE GetListIndex(GetSize(mem, b))
         IN  Cardinality({k \in 1 .. Len(List(i)) : List(i)[k] = b}) = 1

(***************************************************************************)
(* The allocator never touches a live block: the client holds exactly the  *)
(* payloads of the allocated blocks, each large enough for the bytes it    *)
(* asked for, and every word of those bytes still holds the data it wrote  *)
(* (zeros for calloc, the old data up to min(size, old size) for a moved   *)
(* realloc).  A footer, link or header written into the wrong place, a     *)
(* split that shrinks a live block, a coalesce that swallows one, or a     *)
(* realloc that copies too little shows up here.                           *)
(***************************************************************************)
ClientDataIntact ==
    /\ DOMAIN live = {HeaderToPayload(b) : b \in AllocatedBlocks}
    /\ \A p \in DOMAIN live :
         /\ live[p].req <= GetPayloadSize(mem, PayloadToHeader(p))
         /\ \A a \in Covered(p, live[p].req) : mem[a] = live[p].tag

(***************************************************************************)
(* Refinement: read through the block headers, the heap is the abstract    *)
(* allocator of MMAlloc: each call adds at most one allocation, disjoint   *)
(* from the others and inside the arena, removes at most one, and leaves   *)
(* the payload and size of every other allocation as they were; the       *)
(* arena only grows.  A split, coalesce or extension that resizes, moves   *)
(* or swallows a live block breaks it.                                     *)
(***************************************************************************)
\* The allocated blocks met walking find_next from heap_start, as payload ->
\* payload bytes (a recursive function: TLC evaluates it fast when primed).
AllocMap ==
    IF heap_start = NULL THEN <<>>
    ELSE LET F[b \in Addr] ==
                 IF GetSize(mem, b) <= 0 THEN <<>>
                 ELSE LET n == FindNext(mem, b)
                          rest == IF n \in Addr THEN F[n] ELSE <<>>
                      IN  IF GetAlloc(mem, b)
                          THEN (HeaderToPayload(b) :> GetPayloadSize(mem, b)) @@ rest
                          ELSE rest
         IN  F[heap_start]

Abstract == INSTANCE MMAlloc
                WITH LO <- HEAP_LO, Payloads <- Addr, alloc <- AllocMap, top <- brk

AllocatorRefinement == Abstract!Spec

(***************************************************************************)
(* mm_init is idempotent on success (spec section 9): calling it on an     *)
(* initialised heap leaves the allocator as it was.  The code clears the   *)
(* list heads and builds a new prologue and epilogue at the break, so the  *)
(* blocks of the old heap, live ones included, are no longer reachable.    *)
(***************************************************************************)
MmInitIdempotent == [][MmInitAgain => UNCHANGED <<mem, brk, heap_start, seg>>]_vars
(***************************************************************************)
(* Out-of-memory (spec sections 5 and 7): a malloc that returns NULL       *)
(* because mem_sbrk refused to extend the arena leaves the allocator's     *)
(* state unchanged, with no partial mutation visible.  malloc's lazy       *)
(* mm_init takes the 16 bytes of prologue and epilogue and sets heap_start *)
(* before extend_heap, and keeps both when the extension fails.            *)
(***************************************************************************)
MallocOutOfMemoryUnchanged ==
    \A n \in Requests : MallocOp(St, n).bp = NULL => MallocOp(St, n).h = St

(***************************************************************************)
(* A freed block is reused (spec section 8, scenario 7): freeing a live   *)
(* block and asking malloc for the same number of bytes never grows the    *)
(* arena.  free must file the coalesced block in the list find_fit scans   *)
(* for that size, and find_fit must reach it within its search limit.      *)
(***************************************************************************)
FreedBlockReused ==
    \A p \in DOMAIN live : MallocOp(FreeOp(St, p), live[p].req).h.brk = brk
=============================================================================
